---- MODULE Spec2Model ----
(***************************************************************************)
(* The ballot/signature ledger of streamlit_allfunc_voting_app.py: class   *)
(* Database (votes, signatures, initiatives, proposals, settings) and the  *)
(* qualification of an initiative inside Database.sign_initiative.         *)
(*                                                                         *)
(* Granularity.  Every Database method opens its own sqlite3 connection.   *)
(* SQLite serialises write transactions and shows other connections only   *)
(* committed data, so one step of the model is either one read statement   *)
(* or one write transaction up to and including its commit.  A method that *)
(* commits several times (sign_initiative) is several steps, and the steps *)
(* of different sessions interleave.                                       *)
(*                                                                         *)
(* Text.  Titles and descriptions are strings; the Japanese literals of    *)
(* the source are written in ASCII.  The settings table stores str(value)  *)
(* and get_setting parses it with int(); a stored value is modelled as the *)
(* sequence of its decimal digits.                                         *)
(***************************************************************************)
EXTENDS Integers, Sequences, FiniteSets, Bags, TLC

(***************************************************************************)
(* Bounds of the explored state space.                                     *)
(***************************************************************************)
NumVoters == 3        \* voter identities that act through the sessions
NumSessions == 2      \* concurrent Streamlit sessions (script runs)
MaxRequired == 2      \* set_setting('required_signatures', n) for n in 1..MaxRequired
MaxInitiatives == 2   \* rows of the initiatives table, the seeded one included
MaxSignatures == 3    \* signature rows added on top of the seeded ones
MaxVotes == 3         \* rows of the votes table
NumPrincipals == 2    \* principals (e-mail addresses) that log in
NumDates == 2         \* calendar dates a behaviour spans

(***************************************************************************)
(* Program constants.                                                      *)
(***************************************************************************)
SeedSignatures == 8500     \* for i in range(8500): INSERT INTO signatures ... (1, ?)
SeedRequired == 10000      \* required_signatures of the seeded initiative
DefaultRequired == 10000   \* settings row ('required_signatures', '10000')

Voters == 1..NumVoters
Sessions == 1..NumSessions
\* A principal is named by its google_id: md5(email) for the e-mail login,
\* 'admin_001' for the administrator button.
Principals == 1..NumPrincipals
Dates == 1..NumDates
\* vote_type is free text for the votes table: the four kinds of the tabs'
\* buttons and one kind that no tab offers.
VoteTypes == {"agree", "disagree", "veto", "approve", "abstain"}
Titles == {"new title"}
Descriptions == {"new description"}
SettingValues == 1..MaxRequired
Suffix == " (from initiative)"

VARIABLES
    db,           \* the committed content of referendum_data.db
    pc,           \* pc[s]: where session s stands inside a Database method
    frame,        \* frame[s]: arguments and locals of the method s is running
    last_return,  \* what the most recent completed call returned
    qualified_by, \* history: the sign_initiative calls that returned (True, True)
    scope,        \* which part of the ledger this behaviour exercises
    sequential,   \* TRUE: a call starts only when no other call is running
    user,         \* user[s]: st.session_state.user of session s
    today         \* datetime.now().date()

vars == <<db, pc, frame, last_return, qualified_by, scope, sequential, user, today>>

(***************************************************************************)
(* str() and int() on the settings value.                                  *)
(***************************************************************************)
Digits == <<"0", "1", "2", "3", "4", "5", "6", "7", "8", "9">>

RECURSIVE str(_)
str(n) ==
    IF n < 10 THEN <<Digits[n + 1]>>
    ELSE str(n \div 10) \o <<Digits[(n % 10) + 1]>>

DigitValue(c) == (CHOOSE k \in 1..10 : Digits[k] = c) - 1

RECURSIVE int(_)
int(s) ==
    IF Len(s) = 1 THEN DigitValue(s[1])
    ELSE 10 * int(SubSeq(s, 1, Len(s) - 1)) + DigitValue(s[Len(s)])

(***************************************************************************)
(* Rows and tables.  proposals and initiatives are sequences: the          *)
(* AUTOINCREMENT id of a row is its position, and no row is ever deleted.  *)
(* votes and signatures are bags of rows: their id and timestamp columns   *)
(* are never read.  The 8500 seeded signatures of initiative 1 carry the   *)
(* voter ids initial_voter_0 .. initial_voter_8499, which no session uses; *)
(* they are kept as a count.                                               *)
(***************************************************************************)
SeedProposals ==
    << [type |-> "referendum", title |-> "consumption tax cut",
        description |-> "cut the consumption tax from 10% to 8%", status |-> "active"],
       [type |-> "veto", title |-> "veto of the defence budget bill",
        description |-> "veto against the defence budget increase", status |-> "active"] >>

SeedInitiatives ==
    << [title |-> "raise the minimum wage",
        description |-> "raise the minimum wage to 1,500 yen nationwide",
        required_signatures |-> SeedRequired, status |-> "collecting"] >>

SeedSignatureCount(initiative_id) == IF initiative_id = 1 THEN SeedSignatures ELSE 0

init_database ==
    [ users |-> {},
      proposals |-> SeedProposals,
      votes |-> EmptyBag,
      initiatives |-> SeedInitiatives,
      signatures |-> EmptyBag,
      settings |-> str(DefaultRequired) ]

ProposalIds(d) == 1..Len(d.proposals)
InitiativeIds(d) == 1..Len(d.initiatives)

\* An id that no row of proposals or initiatives has.
MissingIds == {Len(SeedProposals) + MaxInitiatives + MaxSignatures + 1}

\* COUNT(*) over the rows of bag B that are in the set rows, copies counted.
RowCount(B, rows) == BagCardinality([r \in rows |-> CopiesIn(r, B)])

VoteRows(d, proposal_id, voter_id) ==
    RowCount(d.votes, {r \in BagToSet(d.votes) :
                        r.proposal_id = proposal_id /\ r.voter_id = voter_id})

SignatureRows(d, initiative_id, voter_id) ==
    RowCount(d.signatures, {r \in BagToSet(d.signatures) :
                             r.initiative_id = initiative_id /\ r.voter_id = voter_id})

(***************************************************************************)
(* Read methods.                                                           *)
(***************************************************************************)
\* Faulty variant: the query without proposal_id=? in its WHERE clause.
has_voted_any_proposal(d, proposal_id, voter_id) ==
    RowCount(d.votes, {r \in BagToSet(d.votes) : r.voter_id = voter_id}) > 0

has_voted(d, proposal_id, voter_id) == VoteRows(d, proposal_id, voter_id) > 0

has_signed(d, initiative_id, voter_id) == SignatureRows(d, initiative_id, voter_id) > 0

get_signature_count(d, initiative_id) ==
    SeedSignatureCount(initiative_id)
    + RowCount(d.signatures, {r \in BagToSet(d.signatures) :
                                r.initiative_id = initiative_id})

get_setting(d) == int(d.settings)

\* SELECT vote_type FROM votes WHERE proposal_id=? AND voter_id=?
StoredVoteTypes(d, proposal_id, voter_id) ==
    {r.vote_type : r \in {x \in BagToSet(d.votes) :
                            x.proposal_id = proposal_id /\ x.voter_id = voter_id}}

\* SELECT vote_type, COUNT(*) ... GROUP BY vote_type, laid over the two
\* expected buckets of the proposal's type.
ExpectedVoteTypes(proposal_type) ==
    IF proposal_type = "referendum" THEN {"agree", "disagree"} ELSE {"veto", "approve"}

\* Faulty variant: the query without its WHERE proposal_id=? clause.
get_vote_counts_all_proposals(d, proposal_id) ==
    LET present == {r.vote_type : r \in BagToSet(d.votes)}
        keys == ExpectedVoteTypes(d.proposals[proposal_id].type) \cup present
    IN  [k \in keys |->
            RowCount(d.votes, {r \in BagToSet(d.votes) : r.vote_type = k})]

\* Faulty variant: the result built from the query's rows alone, dict(rows).
get_vote_counts_rows_only(d, proposal_id) ==
    LET present == {r.vote_type : r \in {x \in BagToSet(d.votes) : x.proposal_id = proposal_id}}
    IN  [k \in present |->
            RowCount(d.votes, {r \in BagToSet(d.votes) :
                                r.proposal_id = proposal_id /\ r.vote_type = k})]

\* Faulty variant: a stored type outside the two expected buckets is skipped.
get_vote_counts_expected_only(d, proposal_id) ==
    [k \in ExpectedVoteTypes(d.proposals[proposal_id].type) |->
        RowCount(d.votes, {r \in BagToSet(d.votes) :
                            r.proposal_id = proposal_id /\ r.vote_type = k})]

get_vote_counts(d, proposal_id) ==
    LET present == {r.vote_type : r \in {x \in BagToSet(d.votes) : x.proposal_id = proposal_id}}
        keys == ExpectedVoteTypes(d.proposals[proposal_id].type) \cup present
    IN  [k \in keys |->
            RowCount(d.votes, {r \in BagToSet(d.votes) :
                                r.proposal_id = proposal_id /\ r.vote_type = k})]

(***************************************************************************)
(* Write statements.                                                       *)
(***************************************************************************)
\* Faulty variant: the constraint declared as UNIQUE(voter_id), one vote per
\* voter over all proposals.
votes_unique_per_voter(d, proposal_id, voter_id, vote_type) ==
    RowCount(d.votes, {r \in BagToSet(d.votes) : r.voter_id = voter_id}) = 0

\* Faulty variant: the votes table without its UNIQUE constraint.
votes_unique_dropped(d, proposal_id, voter_id, vote_type) == TRUE

\* Faulty variant: the constraint declared as UNIQUE(proposal_id, voter_id, vote_type),
\* so that only a repeated vote of the same type is a conflict.
votes_unique_per_type(d, proposal_id, voter_id, vote_type) ==
    RowCount(d.votes, {r \in BagToSet(d.votes) : /\ r.proposal_id = proposal_id
                                                 /\ r.voter_id = voter_id
                                                 /\ r.vote_type = vote_type}) = 0

\* UNIQUE(proposal_id, voter_id) of the votes table: whether the INSERT of
\* the row (proposal_id, voter_id, vote_type) passes it.
votes_unique(d, proposal_id, voter_id, vote_type) ==
    VoteRows(d, proposal_id, voter_id) = 0

\* Faulty variant: the signatures table without its UNIQUE constraint.
signatures_unique_dropped(d, initiative_id, voter_id) == TRUE

\* UNIQUE(initiative_id, voter_id) of the signatures table.
signatures_unique(d, initiative_id, voter_id) ==
    SignatureRows(d, initiative_id, voter_id) = 0

\* Faulty variant: a kind outside the proposal's pair stored as the pair's
\* negative kind.
insert_vote_coerced(d, proposal_id, voter_id, vote_type) ==
    [d EXCEPT !.votes = @ (+) SetToBag({[proposal_id |-> proposal_id,
                                         voter_id |-> voter_id,
                                         vote_type |->
                                            IF d.proposals[proposal_id].type = "referendum"
                                            THEN IF vote_type \in {"agree", "disagree"}
                                                 THEN vote_type ELSE "disagree"
                                            ELSE IF vote_type \in {"veto", "approve"}
                                                 THEN vote_type ELSE "veto"]})]

insert_vote(d, proposal_id, voter_id, vote_type) ==
    [d EXCEPT !.votes = @ (+) SetToBag({[proposal_id |-> proposal_id,
                                         voter_id |-> voter_id,
                                         vote_type |-> vote_type]})]

insert_signature(d, initiative_id, voter_id) ==
    [d EXCEPT !.signatures = @ (+) SetToBag({[initiative_id |-> initiative_id,
                                              voter_id |-> voter_id]})]

insert_initiative(d, title, description, required) ==
    [d EXCEPT !.initiatives = Append(@, [title |-> title,
                                         description |-> description,
                                         required_signatures |-> required,
                                         status |-> "collecting"])]

\* Faulty variant: the initiative committed without the founder's signature.
create_initiative_rows_unsigned(d, title, description, required, voter_id) ==
    insert_initiative(d, title, description, required)

\* The transaction of create_initiative: the initiative row and the
\* founder's signature row, committed together.
create_initiative_rows(d, title, description, required, voter_id) ==
    insert_signature(insert_initiative(d, title, description, required),
                     Len(d.initiatives) + 1, voter_id)

\* Faulty variant: the UPDATE matches no row.
update_status_lost(d, initiative_id) == d

\* Faulty variant: the UPDATE without its WHERE id=? clause.
update_status_everywhere(d, initiative_id) ==
    [d EXCEPT !.initiatives = [i \in InitiativeIds(d) |->
                                 [d.initiatives[i] EXCEPT !.status = "qualified"]]]

update_status_qualified(d, initiative_id) ==
    [d EXCEPT !.initiatives[initiative_id].status = "qualified"]

\* Faulty variant: the description copied without the suffix.
spawned_proposal_unsuffixed(title, description) ==
    [type |-> "referendum", title |-> title,
     description |-> description, status |-> "active"]

\* INSERT INTO proposals (type, title, description) VALUES ('referendum', ?, ?)
spawned_proposal(title, description) ==
    [type |-> "referendum", title |-> title,
     description |-> description \o Suffix, status |-> "active"]

insert_proposal(d, row) == [d EXCEPT !.proposals = Append(@, row)]

\* Faulty variant: the comparison reversed.
threshold_reversed(signatures, required) == signatures <= required

\* Faulty variant: the threshold compared with > instead of >=.
threshold_exceeded(signatures, required) == signatures > required

\* if signatures >= required:
threshold_reached(signatures, required) == signatures >= required

\* Faulty variant: the new default also written to the existing initiatives.
upsert_setting_retroactive(d, value) ==
    [d EXCEPT !.settings = str(value),
              !.initiatives = [i \in InitiativeIds(d) |->
                                 [d.initiatives[i] EXCEPT !.required_signatures = value]]]

upsert_setting(d, value) == [d EXCEPT !.settings = str(value)]

(***************************************************************************)
(* Sessions.  Each session is one user's script run; it calls one Database *)
(* method at a time, and the methods of different sessions interleave.     *)
(*                                                                         *)
(* scope and sequential are fixed by the initial state and never change.   *)
(* scope keeps the explored state space a sum instead of a product: a      *)
(* behaviour with scope "ballot" makes cast_vote calls on the seeded       *)
(* ledger, one with scope "petition" makes set_setting, create_initiative  *)
(* and sign_initiative calls.  sequential = TRUE restricts the behaviours   *)
(* to calls made one after the other.                                      *)
(*                                                                         *)
(* In the scopes "ballot" and "petition" the ids passed to cast_vote and   *)
(* sign_initiative are ids of existing rows, as they are when the call     *)
(* comes from a tab, which lists get_all_proposals or get_all_initiatives. *)
(* A behaviour with scope "direct" calls the two methods on the seeded     *)
(* ledger with an id of MissingIds.  The tables declare FOREIGN            *)
(* KEY (proposal_id) and FOREIGN KEY (initiative_id), but get_connection   *)
(* never issues PRAGMA foreign_keys = ON, so SQLite does not enforce them: *)
(* an INSERT with a missing id succeeds.                                   *)
(*                                                                         *)
(* A behaviour with scope "vote_tab" or "sign_tab" makes its calls the way *)
(* the tabs do, on the seeded ledger: a session first reads has_voted or   *)
(* has_signed, and only when that returned False does it render the        *)
(* buttons whose click calls cast_vote or sign_initiative.                 *)
(*                                                                         *)
(* last_return and qualified_by record what the calls returned; the        *)
(* program does not read them.                                             *)
(***************************************************************************)
NoFrame ==
    [proposal_id |-> 0, initiative_id |-> 0, voter_id |-> 0, title |-> "", description |-> "",
     signatures |-> 0, required |-> 0, issued_signatures |-> 0]

NoReturn == [op |-> "none", success |-> FALSE, qualified |-> FALSE, id |-> 0, error |-> ""]

Returned(op, success, qualified, id) ==
    [op |-> op, success |-> success, qualified |-> qualified, id |-> id, error |-> ""]

Failed(op, error) ==
    [op |-> op, success |-> FALSE, qualified |-> FALSE, id |-> 0, error |-> error]

\* Faulty variant: the IntegrityError swallowed and the signature reported as made.
sign_initiative_duplicate_swallowed == Returned("sign_initiative", TRUE, FALSE, 0)

\* except sqlite3.IntegrityError: conn.close(); return False, False
sign_initiative_duplicate == Returned("sign_initiative", FALSE, FALSE, 0)

(***************************************************************************)
(* Users.  generate_voter_id reads the clock; here the date is a           *)
(* parameter.  The first 16 hex digits of a SHA-256 digest are modelled as *)
(* an injective code of (google_id, date): collisions of the digest are    *)
(* left out.  A users row is modelled by its id and voter_id; email, name  *)
(* and is_admin play no part in the ledger.                                *)
(***************************************************************************)
generate_voter_id(google_id, date) == (date - 1) * NumPrincipals + google_id

\* The voter ids generate_voter_id can produce for a principal.
VoterIdsOf(google_id) == {generate_voter_id(google_id, date) : date \in Dates}

VoterIds == UNION {VoterIdsOf(google_id) : google_id \in Principals}

get_user_by_id(d, google_id) == CHOOSE row \in d.users : row.id = google_id

\* Faulty variant: ON CONFLICT(id) DO UPDATE also sets
\* voter_id = excluded.voter_id.
create_or_update_user_rotating(d, google_id, voter_id) ==
    [d EXCEPT !.users = {row \in @ : row.id # google_id}
                            \cup {[id |-> google_id, voter_id |-> voter_id]}]

\* INSERT INTO users ... ON CONFLICT(id) DO UPDATE SET email, name,
\* is_admin: the voter_id of an existing row is not in the SET list.
create_or_update_user(d, google_id, voter_id) ==
    IF \E row \in d.users : row.id = google_id
    THEN d
    ELSE [d EXCEPT !.users = @ \cup {[id |-> google_id, voter_id |-> voter_id]}]

\* st.session_state.user = None.  logged_in_on is not part of the program's
\* state: it records the date of the login.
NoUser == [id |-> 0, voter_id |-> 0, logged_in_on |-> 0]

Running == {s \in Sessions : pc[s] # "idle"}

\* A session may start a call when it is idle and, in a sequential run,
\* no other session is inside a call.
MayCall(s) == pc[s] = "idle" /\ (sequential => Running = {})

\* The state after db = Database(): the seeded ledger, every session idle.
InitWith(scopes, one_at_a_time) ==
    /\ db = init_database
    /\ pc = [s \in Sessions |-> "idle"]
    /\ frame = [s \in Sessions |-> NoFrame]
    /\ last_return = NoReturn
    /\ qualified_by = <<>>
    /\ scope \in scopes
    /\ sequential = one_at_a_time
    /\ user = [s \in Sessions |-> NoUser]
    /\ today = 1

Init == InitWith({"ballot", "petition"}, FALSE)

SeqInit == InitWith({"ballot", "petition"}, TRUE)

BallotInit == InitWith({"ballot"}, FALSE)

DirectInit == InitWith({"direct"}, TRUE)

TabsInit == InitWith({"vote_tab", "sign_tab"}, FALSE)

LoginInit == InitWith({"vote_login", "sign_login"}, FALSE)

\* The scopes whose calls are made from a tab.
VoteTabScopes == {"vote_tab", "vote_login"}
SignTabScopes == {"sign_tab", "sign_login"}
LoginScopes == {"vote_login", "sign_login"}

\* The tabs pass st.session_state.user['voter_id'].
ActsAs(s, voter_id) ==
    scope \in LoginScopes => user[s] # NoUser /\ user[s].voter_id = voter_id

\* The ids a call is made with.
CalledProposalIds == IF scope = "direct" THEN MissingIds ELSE ProposalIds(db)
CalledInitiativeIds == IF scope = "direct" THEN MissingIds ELSE InitiativeIds(db)

(***************************************************************************)
(* The referendum and veto tabs: for a listed proposal, if                 *)
(* db.has_voted(...) is False the two buttons of the proposal's type are   *)
(* rendered, and a click calls cast_vote.                                  *)
(***************************************************************************)
ButtonsShown == Cardinality({s \in Sessions : pc[s] = "vote_buttons"})

vote_buttons(s, proposal_id, voter_id) ==
    /\ scope \in VoteTabScopes
    /\ ActsAs(s, voter_id)
    /\ MayCall(s)
    /\ proposal_id \in ProposalIds(db)
    /\ BagCardinality(db.votes) + ButtonsShown < MaxVotes
    /\ ~has_voted(db, proposal_id, voter_id)
    /\ frame' = [frame EXCEPT ![s] = [NoFrame EXCEPT !.proposal_id = proposal_id,
                                                      !.voter_id = voter_id]]
    /\ pc' = [pc EXCEPT ![s] = "vote_buttons"]
    /\ UNCHANGED <<db, last_return, qualified_by, scope, sequential, user, today>>

\* The button of session s for this vote is clicked.
Clicked(s, proposal_id, voter_id, vote_type) ==
    /\ pc[s] = "vote_buttons"
    /\ frame[s].proposal_id = proposal_id
    /\ frame[s].voter_id = voter_id
    /\ vote_type \in ExpectedVoteTypes(db.proposals[proposal_id].type)

(***************************************************************************)
(* cast_vote: INSERT and commit, or IntegrityError and return False.       *)
(* The proposal ids offered are those of get_all_proposals, as in the      *)
(* referendum and veto tabs.                                               *)
(***************************************************************************)
\* Faulty variant: INSERT OR REPLACE, so that a second vote of the pair
\* replaces the stored one.
cast_vote_upsert(s, proposal_id, voter_id, vote_type) ==
    /\ \/ scope \in {"ballot", "direct"} /\ MayCall(s)
       \/ scope \in VoteTabScopes /\ Clicked(s, proposal_id, voter_id, vote_type)
    /\ proposal_id \in CalledProposalIds
    /\ db' = insert_vote([db EXCEPT !.votes =
                            [r \in {x \in BagToSet(db.votes) :
                                      x.proposal_id # proposal_id \/ x.voter_id # voter_id}
                                |-> CopiesIn(r, db.votes)]],
                         proposal_id, voter_id, vote_type)
    /\ BagCardinality(db'.votes) <= MaxVotes
    /\ last_return' = Returned("cast_vote", TRUE, FALSE, 0)
    /\ pc' = [pc EXCEPT ![s] = "idle"]
    /\ frame' = [frame EXCEPT ![s] = NoFrame]
    /\ UNCHANGED <<qualified_by, scope, sequential, user, today>>

cast_vote(s, proposal_id, voter_id, vote_type) ==
    /\ \/ scope \in {"ballot", "direct"} /\ MayCall(s)
       \/ scope \in VoteTabScopes /\ Clicked(s, proposal_id, voter_id, vote_type)
    /\ proposal_id \in CalledProposalIds
    /\ BagCardinality(db.votes) < MaxVotes \/ ~votes_unique(db, proposal_id, voter_id, vote_type)
    /\ IF votes_unique(db, proposal_id, voter_id, vote_type)
       THEN /\ db' = insert_vote(db, proposal_id, voter_id, vote_type)
            /\ last_return' = Returned("cast_vote", TRUE, FALSE, 0)
       ELSE /\ db' = db
            /\ last_return' = Returned("cast_vote", FALSE, FALSE, 0)
    /\ pc' = [pc EXCEPT ![s] = "idle"]
    /\ frame' = [frame EXCEPT ![s] = NoFrame]
    /\ UNCHANGED <<qualified_by, scope, sequential, user, today>>

(***************************************************************************)
(* set_setting('required_signatures', value), from the administrator tab.  *)
(***************************************************************************)
set_setting(s, value) ==
    /\ scope = "petition"
    /\ MayCall(s)
    /\ db' = upsert_setting(db, value)
    /\ last_return' = Returned("set_setting", TRUE, FALSE, 0)
    /\ UNCHANGED <<pc, frame, qualified_by, scope, sequential, user, today>>

(***************************************************************************)
(* create_initiative: get_setting on a connection of its own, then one     *)
(* transaction that inserts the initiative and the founder's signature.    *)
(* The new initiative id has no signature row yet (signatures are only     *)
(* made on the ids of get_all_initiatives), so the founder's INSERT passes *)
(* the UNIQUE constraint.                                                  *)
(***************************************************************************)
CreatesRunning == Cardinality({s \in Sessions : pc[s] = "ci_insert"})
SignsPending == Cardinality({s \in Sessions : pc[s] = "si_insert"})

create_initiative_get_setting(s, title, description, voter_id) ==
    /\ scope = "petition"
    /\ MayCall(s)
    /\ Len(db.initiatives) + CreatesRunning < MaxInitiatives
    /\ BagCardinality(db.signatures) + CreatesRunning + SignsPending < MaxSignatures
    /\ frame' = [frame EXCEPT ![s] = [NoFrame EXCEPT !.title = title,
                                                      !.description = description,
                                                      !.voter_id = voter_id,
                                                      !.required = get_setting(db)]]
    /\ pc' = [pc EXCEPT ![s] = "ci_insert"]
    /\ UNCHANGED <<db, last_return, qualified_by, scope, sequential, user, today>>

create_initiative_insert(s) ==
    /\ pc[s] = "ci_insert"
    /\ db' = create_initiative_rows(db, frame[s].title, frame[s].description,
                                    frame[s].required, frame[s].voter_id)
    /\ last_return' = Returned("create_initiative", TRUE, FALSE, Len(db.initiatives) + 1)
    /\ pc' = [pc EXCEPT ![s] = "idle"]
    /\ frame' = [frame EXCEPT ![s] = NoFrame]
    /\ UNCHANGED <<qualified_by, scope, sequential, user, today>>

(***************************************************************************)
(* sign_initiative.  Its statements, in order:                             *)
(*   si_insert    INSERT INTO signatures + commit; IntegrityError returns  *)
(*                (False, False)                                           *)
(*   si_count     signatures = self.get_signature_count(initiative_id)     *)
(*   si_required  SELECT required_signatures; if signatures >= required    *)
(*   si_update    UPDATE initiatives SET status='qualified' + commit       *)
(*   si_select    SELECT title, description                                *)
(*   si_spawn     INSERT INTO proposals + commit; return (True, True)      *)
(***************************************************************************)
\* The initiative tab: for a listed initiative with status collecting, if
\* db.has_signed(...) is False the sign button is rendered.
SignButtonsShown == Cardinality({s \in Sessions : pc[s] = "sign_button"})

sign_button(s, initiative_id, voter_id) ==
    /\ scope \in SignTabScopes
    /\ ActsAs(s, voter_id)
    /\ MayCall(s)
    /\ initiative_id \in InitiativeIds(db)
    /\ BagCardinality(db.signatures) + SignButtonsShown + SignsPending < MaxSignatures
    /\ db.initiatives[initiative_id].status = "collecting"
    /\ ~has_signed(db, initiative_id, voter_id)
    /\ frame' = [frame EXCEPT ![s] = [NoFrame EXCEPT !.initiative_id = initiative_id,
                                                      !.voter_id = voter_id]]
    /\ pc' = [pc EXCEPT ![s] = "sign_button"]
    /\ UNCHANGED <<db, last_return, qualified_by, scope, sequential, user, today>>

sign_initiative_call(s, initiative_id, voter_id) ==
    /\ \/ scope \in {"petition", "direct"} /\ MayCall(s)
       \/ /\ scope \in SignTabScopes
          /\ pc[s] = "sign_button"
          /\ frame[s].initiative_id = initiative_id
          /\ frame[s].voter_id = voter_id
    /\ initiative_id \in CalledInitiativeIds
    /\ \/ BagCardinality(db.signatures) + CreatesRunning + SignsPending < MaxSignatures
       \/ ~signatures_unique(db, initiative_id, voter_id)
    /\ frame' = [frame EXCEPT ![s] =
                    [NoFrame EXCEPT !.initiative_id = initiative_id,
                                    !.voter_id = voter_id,
                                    !.issued_signatures =
                                        get_signature_count(db, initiative_id)]]
    /\ pc' = [pc EXCEPT ![s] = "si_insert"]
    /\ UNCHANGED <<db, last_return, qualified_by, scope, sequential, user, today>>

\* Faulty variant: a duplicate is retried instead of returned.
sign_initiative_insert_retrying(s) ==
    /\ pc[s] = "si_insert"
    /\ IF signatures_unique(db, frame[s].initiative_id, frame[s].voter_id)
       THEN /\ db' = insert_signature(db, frame[s].initiative_id, frame[s].voter_id)
            /\ pc' = [pc EXCEPT ![s] = "si_count"]
            /\ UNCHANGED <<frame, last_return>>
       ELSE UNCHANGED <<db, pc, frame, last_return>>
    /\ UNCHANGED <<qualified_by, scope, sequential, user, today>>

sign_initiative_insert(s) ==
    /\ pc[s] = "si_insert"
    /\ IF signatures_unique(db, frame[s].initiative_id, frame[s].voter_id)
       THEN /\ db' = insert_signature(db, frame[s].initiative_id, frame[s].voter_id)
            /\ pc' = [pc EXCEPT ![s] = "si_count"]
            /\ UNCHANGED <<frame, last_return>>
       ELSE /\ db' = db
            /\ last_return' = sign_initiative_duplicate
            /\ pc' = [pc EXCEPT ![s] = "idle"]
            /\ frame' = [frame EXCEPT ![s] = NoFrame]
    /\ UNCHANGED <<qualified_by, scope, sequential, user, today>>

sign_initiative_count(s) ==
    /\ pc[s] = "si_count"
    /\ frame' = [frame EXCEPT ![s].signatures =
                    get_signature_count(db, frame[s].initiative_id)]
    /\ pc' = [pc EXCEPT ![s] = "si_required"]
    /\ UNCHANGED <<db, last_return, qualified_by, scope, sequential, user, today>>

\* required = cursor.fetchone()[0]: without a row fetchone() is None, and
\* subscripting it raises TypeError, which the method does not catch.
sign_initiative_required(s) ==
    /\ pc[s] = "si_required"
    /\ IF frame[s].initiative_id \notin InitiativeIds(db)
       THEN /\ last_return' = Failed("sign_initiative", "TypeError")
            /\ pc' = [pc EXCEPT ![s] = "idle"]
            /\ frame' = [frame EXCEPT ![s] = NoFrame]
       ELSE LET required == db.initiatives[frame[s].initiative_id].required_signatures
            IN  IF threshold_reached(frame[s].signatures, required)
                THEN /\ frame' = [frame EXCEPT ![s].required = required]
                     /\ pc' = [pc EXCEPT ![s] = "si_update"]
                     /\ UNCHANGED last_return
                ELSE /\ last_return' = Returned("sign_initiative", TRUE, FALSE, 0)
                     /\ pc' = [pc EXCEPT ![s] = "idle"]
                     /\ frame' = [frame EXCEPT ![s] = NoFrame]
    /\ UNCHANGED <<db, qualified_by, scope, sequential, user, today>>

sign_initiative_update(s) ==
    /\ pc[s] = "si_update"
    /\ db' = update_status_qualified(db, frame[s].initiative_id)
    /\ pc' = [pc EXCEPT ![s] = "si_select"]
    /\ UNCHANGED <<frame, last_return, qualified_by, scope, sequential, user, today>>

sign_initiative_select(s) ==
    /\ pc[s] = "si_select"
    /\ frame' = [frame EXCEPT
                    ![s].title = db.initiatives[frame[s].initiative_id].title,
                    ![s].description = db.initiatives[frame[s].initiative_id].description]
    /\ pc' = [pc EXCEPT ![s] = "si_spawn"]
    /\ UNCHANGED <<db, last_return, qualified_by, scope, sequential, user, today>>

sign_initiative_spawn(s) ==
    /\ pc[s] = "si_spawn"
    /\ db' = insert_proposal(db, spawned_proposal(frame[s].title, frame[s].description))
    /\ qualified_by' = Append(qualified_by,
                              [initiative_id |-> frame[s].initiative_id,
                               voter_id |-> frame[s].voter_id,
                               proposal_id |-> Len(db.proposals) + 1,
                               issued_signatures |-> frame[s].issued_signatures])
    /\ last_return' = Returned("sign_initiative", TRUE, TRUE, 0)
    /\ pc' = [pc EXCEPT ![s] = "idle"]
    /\ frame' = [frame EXCEPT ![s] = NoFrame]
    /\ UNCHANGED <<scope, sequential, user, today>>

(***************************************************************************)
(* A storage failure (sqlite3.OperationalError and the like) is caught by  *)
(* no method: the exception leaves the method between two of its steps,    *)
(* what was committed stays committed, and an open transaction is lost.    *)
(* A failure inside a transaction leaves the ledger as a failure before    *)
(* it does, so the single-transaction methods need no step of their own.   *)
(***************************************************************************)
(***************************************************************************)
(* Login, logout and the change of date, in the behaviours whose scope is  *)
(* in LoginScopes.  The login handler computes generate_voter_id, calls    *)
(* create_or_update_user, which commits and returns the row read back by   *)
(* get_user_by_id, and stores that row in st.session_state.user.  No       *)
(* statement changes the voter_id of a stored row, so the handler is one   *)
(* step.  The logout button is rendered on every page of a logged-in       *)
(* session; its click ends the page the session was on.                    *)
(***************************************************************************)
\* Faulty variant: the handler keeps the voter id it has just generated
\* instead of the row create_or_update_user returns.
login_generated_id(s, google_id) ==
    /\ scope \in LoginScopes
    /\ pc[s] = "idle"
    /\ user[s] = NoUser
    /\ db' = create_or_update_user(db, google_id, generate_voter_id(google_id, today))
    /\ user' = [user EXCEPT ![s] =
                    [id |-> google_id,
                     voter_id |-> generate_voter_id(google_id, today),
                     logged_in_on |-> today]]
    /\ last_return' = Returned("create_or_update_user", TRUE, FALSE, google_id)
    /\ UNCHANGED <<pc, frame, qualified_by, scope, sequential, today>>

login(s, google_id) ==
    /\ scope \in LoginScopes
    /\ pc[s] = "idle"
    /\ user[s] = NoUser
    /\ db' = create_or_update_user(db, google_id, generate_voter_id(google_id, today))
    /\ user' = [user EXCEPT ![s] =
                    [id |-> google_id,
                     voter_id |-> get_user_by_id(db', google_id).voter_id,
                     logged_in_on |-> today]]
    /\ last_return' = Returned("create_or_update_user", TRUE, FALSE, google_id)
    /\ UNCHANGED <<pc, frame, qualified_by, scope, sequential, today>>

logout(s) ==
    /\ scope \in LoginScopes
    /\ pc[s] \in {"idle", "vote_buttons", "sign_button"}
    /\ user[s] # NoUser
    /\ user' = [user EXCEPT ![s] = NoUser]
    /\ pc' = [pc EXCEPT ![s] = "idle"]
    /\ frame' = [frame EXCEPT ![s] = NoFrame]
    /\ UNCHANGED <<db, last_return, qualified_by, scope, sequential, today>>

\* datetime.now().date() moves to the next date.
midnight ==
    /\ scope \in LoginScopes
    /\ today < NumDates
    /\ today' = today + 1
    /\ UNCHANGED <<db, pc, frame, last_return, qualified_by, scope, sequential, user>>

OpOf(position) ==
    IF position = "ci_insert" THEN "create_initiative" ELSE "sign_initiative"

storage_failure(s) ==
    /\ pc[s] # "idle"
    /\ last_return' = Failed(OpOf(pc[s]), "StorageFailure")
    /\ pc' = [pc EXCEPT ![s] = "idle"]
    /\ frame' = [frame EXCEPT ![s] = NoFrame]
    /\ UNCHANGED <<db, qualified_by, scope, sequential, user, today>>

Next ==
    \E s \in Sessions :
        \/ \E p \in CalledProposalIds, v \in Voters, k \in VoteTypes :
                cast_vote(s, p, v, k)
        \/ \E n \in SettingValues : set_setting(s, n)
        \/ \E t \in Titles, d \in Descriptions, v \in Voters :
                create_initiative_get_setting(s, t, d, v)
        \/ create_initiative_insert(s)
        \/ \E i \in CalledInitiativeIds, v \in Voters :
                sign_initiative_call(s, i, v)
        \/ sign_initiative_insert(s)
        \/ sign_initiative_count(s)
        \/ sign_initiative_required(s)
        \/ sign_initiative_update(s)
        \/ sign_initiative_select(s)
        \/ sign_initiative_spawn(s)

FailNext == Next \/ \E s \in Sessions : storage_failure(s)

BallotNext ==
    \E s \in Sessions, p \in ProposalIds(db), v \in Voters, k \in VoteTypes :
        cast_vote(s, p, v, k)

\* The steps a behaviour with scope "direct" can take: a sign_initiative
\* call on a missing id ends at its SELECT of required_signatures.
DirectNext ==
    \E s \in Sessions :
        \/ \E p \in CalledProposalIds, v \in Voters, k \in VoteTypes :
                cast_vote(s, p, v, k)
        \/ \E i \in CalledInitiativeIds, v \in Voters :
                sign_initiative_call(s, i, v)
        \/ sign_initiative_insert(s)
        \/ sign_initiative_count(s)
        \/ sign_initiative_required(s)

\* The steps of the behaviours with scope "vote_tab" or "sign_tab".
TabsNext ==
    \E s \in Sessions :
        \/ \E p \in ProposalIds(db), v \in Voters : vote_buttons(s, p, v)
        \/ \E p \in ProposalIds(db), v \in Voters, k \in VoteTypes : cast_vote(s, p, v, k)
        \/ \E i \in InitiativeIds(db), v \in Voters : sign_button(s, i, v)
        \/ \E i \in InitiativeIds(db), v \in Voters : sign_initiative_call(s, i, v)
        \/ sign_initiative_insert(s)
        \/ sign_initiative_count(s)
        \/ sign_initiative_required(s)

\* The steps of the behaviours whose sessions log in, act through the tabs
\* under the voter id of their user, and log out.
LoginNext ==
    \/ midnight
    \/ \E s \in Sessions :
        \/ \E g \in Principals : login(s, g)
        \/ logout(s)
        \/ \E p \in ProposalIds(db), v \in VoterIds : vote_buttons(s, p, v)
        \/ \E p \in ProposalIds(db), v \in VoterIds, k \in VoteTypes : cast_vote(s, p, v, k)
        \/ \E i \in InitiativeIds(db), v \in VoterIds : sign_button(s, i, v)
        \/ \E i \in InitiativeIds(db), v \in VoterIds : sign_initiative_call(s, i, v)
        \/ sign_initiative_insert(s)
        \/ sign_initiative_count(s)
        \/ sign_initiative_required(s)

\* Sessions run concurrently.
Spec == Init /\ [][Next]_vars

\* One call at a time.
SeqSpec == SeqInit /\ [][Next]_vars

\* The behaviours of Spec with scope "ballot": cast_vote is a single
\* transaction, so its calls do not overlap.
BallotSpec == BallotInit /\ [][BallotNext]_vars

\* Calls with a missing id, one at a time.
DirectSpec == DirectInit /\ [][DirectNext]_vars

\* Concurrent sessions that call through the tabs.
TabsSpec == TabsInit /\ [][TabsNext]_vars

\* Concurrent sessions of principals that log in and out over several dates.
LoginSpec == LoginInit /\ [][LoginNext]_vars

\* One call at a time, and a call may be aborted by a storage failure.
FailSpec == SeqInit /\ [][FailNext]_vars

\* The statements that follow the first one of a call of session s.  A
\* Database method is straight-line code on its own connection: the thread
\* of the session's script run executes its next statement as soon as it is
\* scheduled, and a statement that waits for SQLite's write lock either
\* gets it or raises OperationalError when the busy timeout expires.
Continue(s) ==
    \/ create_initiative_insert(s)
    \/ sign_initiative_insert(s)
    \/ sign_initiative_count(s)
    \/ sign_initiative_required(s)
    \/ sign_initiative_update(s)
    \/ sign_initiative_select(s)
    \/ sign_initiative_spawn(s)

\* Concurrent sessions, storage failures, and every session's thread
\* scheduled fairly.
FairSpec ==
    /\ Init
    /\ [][FailNext]_vars
    /\ \A s \in Sessions : WF_vars(Continue(s))

TypeOK ==
    /\ pc \in [Sessions -> {"idle", "vote_buttons", "sign_button", "ci_insert", "si_insert", "si_count", "si_required",
                            "si_update", "si_select", "si_spawn"}]
    /\ scope \in {"ballot", "petition", "direct", "vote_tab", "sign_tab"} \cup LoginScopes
    /\ sequential \in BOOLEAN
    /\ today \in Dates
    /\ db.users \subseteq [id : Principals, voter_id : VoterIds]
    /\ \A s \in Sessions :
            user[s] = NoUser \/ user[s] \in [id : Principals, voter_id : VoterIds, logged_in_on : Dates]
    /\ \A i \in InitiativeIds(db) : db.initiatives[i].status \in {"collecting", "qualified"}

(***************************************************************************)
(* Claims.                                                                 *)
(***************************************************************************)
\* C1: the ledger never holds two vote rows for one (proposal, voter); a
\* cast_vote for a pair without a row returns True and stores exactly one
\* row, and a cast_vote for a pair that has a row, whatever the vote type,
\* returns False and leaves the votes table as it was.
C1_OneVotePerVoter ==
    /\ [](\A p \in ProposalIds(db), v \in Voters : VoteRows(db, p, v) <= 1)
    /\ [][\A s \in Sessions, p \in ProposalIds(db), v \in Voters, k \in VoteTypes :
            cast_vote(s, p, v, k) =>
                IF VoteRows(db, p, v) = 0
                THEN /\ last_return'.op = "cast_vote" /\ last_return'.success
                     /\ VoteRows(db', p, v) = 1
                     /\ BagCardinality(db'.votes) = BagCardinality(db.votes) + 1
                ELSE /\ last_return'.op = "cast_vote" /\ ~last_return'.success
                     /\ db'.votes = db.votes]_vars

\* C1 witness: a second cast_vote for a pair was rejected.
C1_Witness ==
    /\ last_return.op = "cast_vote" /\ ~last_return.success
    /\ \E p \in ProposalIds(db), v \in Voters : VoteRows(db, p, v) = 1

\* C9: a cast_vote by a voter who already has a vote on the proposal is
\* rejected and changes nothing: it returns False, the ledger is the same
\* afterwards, the voter's stored vote keeps its type and get_vote_counts
\* of the proposal returns the same mapping as before.
C9_RejectedVoteChangesNothing ==
    [][\A s \in Sessions, p \in ProposalIds(db), v \in Voters, k \in VoteTypes :
        (cast_vote(s, p, v, k) /\ has_voted(db, p, v)) =>
            /\ last_return' = Returned("cast_vote", FALSE, FALSE, 0)
            /\ db' = db
            /\ StoredVoteTypes(db', p, v) = StoredVoteTypes(db, p, v)
            /\ get_vote_counts(db', p) = get_vote_counts(db, p)]_vars

\* C9 witness: voter 1 voted agree on proposal 1, a further cast_vote was
\* rejected, and the tally of proposal 1 is {agree: 1, disagree: 0}.
C9_Witness ==
    /\ last_return = Returned("cast_vote", FALSE, FALSE, 0)
    /\ StoredVoteTypes(db, 1, 1) = {"agree"}
    /\ get_vote_counts(db, 1) = [agree |-> 1, disagree |-> 0]

\* C2: the ledger never holds two signature rows for one (initiative,
\* voter); create_initiative stores the founder's signature on the new
\* initiative; a sign_initiative for a pair without a row stores exactly one
\* row, and a sign_initiative for a pair that has a row, the founder's
\* included, reports the duplicate outcome and adds no row.
C2_OneSignaturePerVoter ==
    /\ [](\A i \in InitiativeIds(db), v \in Voters : SignatureRows(db, i, v) <= 1)
    /\ [][\A s \in Sessions :
            /\ create_initiative_insert(s) =>
                    SignatureRows(db', Len(db.initiatives) + 1, frame[s].voter_id) = 1
            /\ sign_initiative_insert(s) =>
                    IF SignatureRows(db, frame[s].initiative_id, frame[s].voter_id) = 0
                    THEN /\ SignatureRows(db', frame[s].initiative_id, frame[s].voter_id) = 1
                         /\ BagCardinality(db'.signatures)
                                = BagCardinality(db.signatures) + 1
                    ELSE /\ last_return'.op = "sign_initiative"
                         /\ ~last_return'.success
                         /\ db'.signatures = db.signatures]_vars

\* C2 witness: the only signature row is the founder's on the created
\* initiative, and a sign_initiative was rejected as a duplicate: the
\* founder signed again.
C2_Witness ==
    /\ Len(db.initiatives) = 2
    /\ BagCardinality(db.signatures) = 1
    /\ get_signature_count(db, 2) = 1
    /\ last_return.op = "sign_initiative" /\ ~last_return.success

\* C10: a sign_initiative whose (initiative, voter) already has a signature
\* returns (False, False) and stops there: the ledger is unchanged (no
\* signature added, no status changed, no proposal spawned), whatever the
\* initiative's signature count and status are.
C10_DuplicateSignatureStops ==
    [][\A s \in Sessions :
        (/\ sign_initiative_insert(s)
         /\ has_signed(db, frame[s].initiative_id, frame[s].voter_id)) =>
            /\ last_return' = Returned("sign_initiative", FALSE, FALSE, 0)
            /\ pc'[s] = "idle"
            /\ db' = db
            /\ qualified_by' = qualified_by]_vars

\* C10 witness: a duplicate was rejected on an initiative that is already
\* qualified (every signature row belongs to initiative 2).
C10_Witness ==
    /\ Len(db.initiatives) = 2
    /\ db.initiatives[2].status = "qualified"
    /\ get_signature_count(db, 1) = SeedSignatures
    /\ last_return = Returned("sign_initiative", FALSE, FALSE, 0)

\* The entries of the history q that belong to initiative i: the
\* sign_initiative calls on i that inserted a proposal and returned
\* (True, True).
QualifiedReturns(q, initiative_id) ==
    {n \in 1..Len(q) : q[n].initiative_id = initiative_id}

\* Session s returns from sign_initiative with success in this step.
SignReturnsSuccess(s) ==
    /\ pc[s] \in {"si_required", "si_spawn"}
    /\ pc'[s] = "idle"
    /\ last_return'.op = "sign_initiative"
    /\ last_return'.success

\* C3 (calls made one at a time): while an initiative has fewer signatures
\* than it requires, its status is collecting and no proposal has been
\* spawned from it; when the sign_initiative call that stores the N-th
\* signature of an initiative requiring N returns, the status is qualified,
\* the call returned qualified = True, and exactly one proposal has been
\* spawned from the initiative, of type referendum and with its title.
C3_QualifiesAtThreshold ==
    /\ [](\A i \in InitiativeIds(db) :
            get_signature_count(db, i) < db.initiatives[i].required_signatures =>
                /\ db.initiatives[i].status = "collecting"
                /\ QualifiedReturns(qualified_by, i) = {})
    /\ [][\A s \in Sessions :
            LET i == frame[s].initiative_id IN
            (/\ SignReturnsSuccess(s)
             /\ get_signature_count(db', i) = db.initiatives[i].required_signatures) =>
                /\ db'.initiatives[i].status = "qualified"
                /\ last_return'.qualified
                /\ Cardinality(QualifiedReturns(qualified_by', i)) = 1
                /\ Len(db'.proposals) = Len(db.proposals) + 1
                /\ \A n \in QualifiedReturns(qualified_by', i) :
                     /\ qualified_by'[n].proposal_id = Len(db'.proposals)
                     /\ db'.proposals[Len(db'.proposals)].type = "referendum"
                     /\ db'.proposals[Len(db'.proposals)].title = db.initiatives[i].title]_vars

\* C3 witness: initiative 2 requires 2 signatures, the founder's and one
\* more are stored, and the sign_initiative call that stored the second
\* has returned (True, True).
C3_Witness ==
    /\ Len(db.initiatives) = 2
    /\ db.initiatives[2].required_signatures = 2
    /\ get_signature_count(db, 2) = 2
    /\ db.initiatives[2].status = "qualified"
    /\ last_return = Returned("sign_initiative", TRUE, TRUE, 0)

\* C4: in calls made one at a time, a signature added to an initiative that
\* is already qualified creates no proposal: no initiative ever has more
\* than one sign_initiative call that returned qualified = True and spawned
\* a proposal.
C4_AtMostOneProposalPerInitiative ==
    \A i \in InitiativeIds(db) : Cardinality(QualifiedReturns(qualified_by, i)) <= 1

\* C5: of the sign_initiative calls issued while an initiative requiring N
\* signatures had N-1 of them, at most one returns qualified = True and
\* spawns a proposal.
C5_OneRacerQualifies ==
    \A i \in InitiativeIds(db) :
        Cardinality({n \in QualifiedReturns(qualified_by, i) :
                        qualified_by[n].issued_signatures
                            = db.initiatives[i].required_signatures - 1}) <= 1

\* C6: in every committed state, an initiative with status qualified has
\* its spawned referendum proposal in the proposals table.
C6_QualifiedHasProposal ==
    \A i \in InitiativeIds(db) :
        db.initiatives[i].status = "qualified" =>
            \E p \in ProposalIds(db) :
                db.proposals[p] = spawned_proposal(db.initiatives[i].title,
                                                   db.initiatives[i].description)

SignPositions ==
    {"si_insert", "si_count", "si_required", "si_update", "si_select", "si_spawn"}

\* C7: whenever no sign_initiative call is in progress, every initiative
\* whose signature count has reached its required count is qualified.
C7_ThresholdImpliesQualified ==
    (\A s \in Sessions : pc[s] \notin SignPositions) =>
        \A i \in InitiativeIds(db) :
            get_signature_count(db, i) >= db.initiatives[i].required_signatures =>
                db.initiatives[i].status = "qualified"

\* C8 (calls made one at a time): the sign_initiative call that brings an
\* initiative from N-1 to N signatures is all-or-nothing.  If a storage
\* failure aborts it, its signature is not stored, the status is still
\* collecting and no proposal has been spawned; if it returns, the
\* signature, the status qualified and the spawned proposal are all there.
C8_QualificationAllOrNothing ==
    [][\A s \in Sessions :
        LET i == frame[s].initiative_id
            v == frame[s].voter_id
        IN  (/\ pc[s] \in SignPositions
             /\ frame[s].issued_signatures = db.initiatives[i].required_signatures - 1) =>
                /\ storage_failure(s) =>
                     /\ get_signature_count(db', i) = frame[s].issued_signatures
                     /\ db'.initiatives[i].status = "collecting"
                     /\ QualifiedReturns(qualified_by', i) = {}
                /\ SignReturnsSuccess(s) =>
                     /\ has_signed(db', i, v)
                     /\ db'.initiatives[i].status = "qualified"
                     /\ Cardinality(QualifiedReturns(qualified_by', i)) = 1]_vars

\* C11: get_vote_counts(P) is computed from the stored rows: every count it
\* returns is the number of votes of that type stored for P (one per
\* voter), and a type it does not list has no stored vote; a successful
\* cast_vote(P, V, k) raises the count of k for P by one and leaves every
\* other count of P and the tally of every other proposal as it was.
C11_TallyCountsStoredRows ==
    /\ [](\A p \in ProposalIds(db) :
            LET counts == get_vote_counts(db, p) IN
            /\ \A k \in DOMAIN counts :
                    counts[k] = Cardinality({v \in Voters : k \in StoredVoteTypes(db, p, v)})
            /\ \A k \in VoteTypes \ DOMAIN counts :
                    \A v \in Voters : k \notin StoredVoteTypes(db, p, v))
    /\ [][\A s \in Sessions, p \in ProposalIds(db), v \in Voters, k \in VoteTypes :
            (cast_vote(s, p, v, k) /\ last_return'.success) =>
                LET before == get_vote_counts(db, p)
                    after == get_vote_counts(db', p)
                IN  /\ k \in DOMAIN after
                    /\ after[k] = (IF k \in DOMAIN before THEN before[k] ELSE 0) + 1
                    /\ DOMAIN before \subseteq DOMAIN after
                    /\ \A j \in DOMAIN after \ {k} :
                            j \in DOMAIN before /\ after[j] = before[j]
                    /\ \A q \in ProposalIds(db) \ {p} :
                            get_vote_counts(db', q) = get_vote_counts(db, q)]_vars

\* C11 witness: two agree votes and one disagree vote on proposal 1 give
\* {agree: 2, disagree: 1}, the last cast_vote having succeeded.
C11_Witness ==
    /\ last_return = Returned("cast_vote", TRUE, FALSE, 0)
    /\ BagCardinality(db.votes) = 3
    /\ get_vote_counts(db, 1) = [agree |-> 2, disagree |-> 1]

\* C12: the tally of every existing proposal lists both expected buckets,
\* agree and disagree for a referendum proposal, veto and approve for a
\* veto proposal, and a bucket without votes has the value 0.
C12_TallyHasExpectedBuckets ==
    \A p \in ProposalIds(db) :
        LET counts == get_vote_counts(db, p)
            expected == IF db.proposals[p].type = "referendum"
                        THEN {"agree", "disagree"}
                        ELSE IF db.proposals[p].type = "veto"
                             THEN {"veto", "approve"} ELSE {}
        IN  /\ expected # {}
            /\ expected \subseteq DOMAIN counts
            /\ \A k \in expected :
                    (\A v \in Voters : k \notin StoredVoteTypes(db, p, v)) => counts[k] = 0

\* C12 witness: a proposal spawned by a qualification has no votes and its
\* tally is {agree: 0, disagree: 0}.
C12_Witness ==
    /\ Len(db.proposals) = 3
    /\ get_vote_counts(db, 3) = [agree |-> 0, disagree |-> 0]

\* C13: the step of sign_initiative that spawns a proposal appends one row
\* to the proposals table, of type referendum and status active, whose
\* title is the initiative's title and whose description is the
\* initiative's description followed by the suffix; the row has no other
\* column, every proposal that existed keeps its content, and so does the
\* rest of the ledger.  Every proposal after the seeded ones is such a row.
C13_SpawnedProposalContent ==
    /\ [](\A p \in ProposalIds(db) \ (1..Len(SeedProposals)) :
            \E i \in InitiativeIds(db) :
                db.proposals[p] = [type |-> "referendum",
                                   title |-> db.initiatives[i].title,
                                   description |-> db.initiatives[i].description
                                                      \o " (from initiative)",
                                   status |-> "active"])
    /\ [][\A s \in Sessions :
            sign_initiative_spawn(s) =>
                LET i == frame[s].initiative_id
                    row == db'.proposals[Len(db'.proposals)]
                IN  /\ Len(db'.proposals) = Len(db.proposals) + 1
                    /\ SubSeq(db'.proposals, 1, Len(db.proposals)) = db.proposals
                    /\ DOMAIN row = {"type", "title", "description", "status"}
                    /\ row.type = "referendum"
                    /\ row.status = "active"
                    /\ row.title = db.initiatives[i].title
                    /\ row.description = db.initiatives[i].description \o Suffix
                    /\ db'.initiatives = db.initiatives
                    /\ db'.votes = db.votes
                    /\ db'.signatures = db.signatures
                    /\ db'.settings = db.settings]_vars

\* C13 witness: initiative 2 qualified and proposal 3 was spawned from it
\* by the call that just returned (True, True).
C13_Witness ==
    /\ Len(db.proposals) = 3
    /\ Len(db.initiatives) = 2
    /\ db.proposals[3].title = "new title"
    /\ db.proposals[3].description = "new description (from initiative)"
    /\ last_return = Returned("sign_initiative", TRUE, TRUE, 0)

\* C14 (calls made one at a time): create_initiative stores the value the
\* required_signatures setting has when it runs; no step changes the
\* required count of an existing initiative; set_setting changes the
\* setting and no initiative; and sign_initiative goes on to qualify
\* exactly when the counted signatures reach the initiative's own
\* required count, whatever the setting is then.
C14_RequiredFrozenAtCreation ==
    /\ [][\A i \in InitiativeIds(db) :
            db'.initiatives[i].required_signatures
                = db.initiatives[i].required_signatures]_vars
    /\ [][\A s \in Sessions :
            /\ \A n \in SettingValues :
                    set_setting(s, n) =>
                        /\ db'.initiatives = db.initiatives
                        /\ get_setting(db') = n
            /\ create_initiative_insert(s) =>
                    db'.initiatives[Len(db.initiatives) + 1].required_signatures
                        = get_setting(db)
            /\ sign_initiative_required(s) =>
                    (pc'[s] = "si_update"
                        <=> frame[s].signatures
                              >= db.initiatives[frame[s].initiative_id].required_signatures)]_vars

\* C14 witness: initiative 2 was created while the setting was 2, the
\* setting was then changed to 1, and the initiative still requires 2.
C14_Witness ==
    /\ Len(db.initiatives) = 2
    /\ db.initiatives[2].required_signatures = 2
    /\ get_setting(db) = 1
    /\ last_return = Returned("set_setting", TRUE, FALSE, 0)

\* C15: the status of every initiative is collecting or qualified; a new
\* initiative starts as collecting; a qualified initiative stays qualified;
\* and a step changes the status of an initiative only from collecting to
\* qualified and only as the UPDATE of a sign_initiative call on that
\* initiative, so cast_vote, create_initiative and set_setting change none.
C15_StatusOnlyQualifies ==
    /\ [](\A i \in InitiativeIds(db) :
            db.initiatives[i].status \in {"collecting", "qualified"})
    /\ [][/\ \A i \in InitiativeIds(db') \ InitiativeIds(db) :
                db'.initiatives[i].status = "collecting"
          /\ \A i \in InitiativeIds(db) :
                /\ db.initiatives[i].status = "qualified"
                        => db'.initiatives[i].status = "qualified"
                /\ db'.initiatives[i].status # db.initiatives[i].status =>
                        /\ db.initiatives[i].status = "collecting"
                        /\ db'.initiatives[i].status = "qualified"
                        /\ \E s \in Sessions :
                                /\ sign_initiative_update(s)
                                /\ frame[s].initiative_id = i]_vars

\* C15 witness: initiative 2 is qualified, no call is running, and the call
\* that returned last is a set_setting made after the qualification.
C15_Witness ==
    /\ Len(db.initiatives) = 2
    /\ db.initiatives[2].status = "qualified"
    /\ db.initiatives[1].status = "collecting"
    /\ Running = {}
    /\ last_return = Returned("set_setting", TRUE, FALSE, 0)

\* C16: every stored vote references an existing proposal and every stored
\* signature an existing initiative; a cast_vote on a proposal id that does
\* not exist stores nothing and ends in the NotFound error, and so does a
\* sign_initiative on an initiative id that does not exist.
C16_MissingIdIsNotFound ==
    /\ [](/\ \A r \in BagToSet(db.votes) : r.proposal_id \in ProposalIds(db)
          /\ \A r \in BagToSet(db.signatures) : r.initiative_id \in InitiativeIds(db))
    /\ [][\A s \in Sessions :
            /\ \A p \in MissingIds, v \in Voters, k \in VoteTypes :
                    cast_vote(s, p, v, k) =>
                        /\ db' = db
                        /\ last_return' = Failed("cast_vote", "NotFound")
            /\ (/\ pc[s] \in SignPositions
                /\ frame[s].initiative_id \in MissingIds) =>
                    /\ db' = db
                    /\ pc'[s] = "idle" => last_return' = Failed("sign_initiative", "NotFound")]_vars

\* C17: when sessions that each saw has_voted = False call cast_vote for
\* the same (proposal, voter), a call returns True exactly when the pair
\* has no row yet and otherwise returns False and changes nothing, and the
\* pair has one row afterwards; so the first of the racing calls succeeds,
\* every later one is a duplicate, and the pair never has two rows.  The
\* same holds for the INSERT of sign_initiative calls made after
\* has_signed = False.
C17_RacingPairStoresOnce ==
    /\ [](/\ \A p \in ProposalIds(db), v \in Voters : VoteRows(db, p, v) <= 1
          /\ \A i \in InitiativeIds(db), v \in Voters : SignatureRows(db, i, v) <= 1)
    /\ [][\A s \in Sessions :
            /\ \A p \in ProposalIds(db), v \in Voters, k \in VoteTypes :
                    (pc[s] = "vote_buttons" /\ cast_vote(s, p, v, k)) =>
                        /\ last_return'.op = "cast_vote"
                        /\ last_return'.error = ""
                        /\ last_return'.success <=> VoteRows(db, p, v) = 0
                        /\ ~last_return'.success => db' = db
                        /\ VoteRows(db', p, v) = 1
            /\ (scope = "sign_tab" /\ sign_initiative_insert(s)) =>
                    LET i == frame[s].initiative_id
                        v == frame[s].voter_id
                    IN  /\ pc'[s] = "si_count" <=> SignatureRows(db, i, v) = 0
                        /\ pc'[s] # "si_count" =>
                                /\ last_return' = Returned("sign_initiative", FALSE, FALSE, 0)
                                /\ pc'[s] = "idle"
                                /\ db' = db
                        /\ SignatureRows(db', i, v) = 1
            /\ (scope = "sign_tab" /\ sign_initiative_required(s)) =>
                    /\ pc'[s] = "idle" => last_return'.success
                    /\ db' = db]_vars

\* C17 witness: both sessions saw has_voted = False for one pair and called
\* cast_vote; the only stored vote is that of the call that succeeded, and
\* the call that returned last was rejected as a duplicate.
C17_Witness ==
    /\ scope = "vote_tab"
    /\ Running = {}
    /\ BagCardinality(db.votes) = 1
    /\ last_return = Returned("cast_vote", FALSE, FALSE, 0)

\* C18: create_initiative commits the new initiative and the founder's
\* signature in one step: the step appends one initiative with status
\* collecting and the given title and description, adds one signature row,
\* the founder's on the new initiative, so that its signature count is 1,
\* and returns the new id; initiatives appear in no other way, and in every
\* state every created initiative has a signature.
C18_CreateInitiativeAtomic ==
    /\ [](\A i \in InitiativeIds(db) \ (1..Len(SeedInitiatives)) :
            \E v \in Voters : has_signed(db, i, v))
    /\ [][/\ Len(db'.initiatives) # Len(db.initiatives) =>
                \E s \in Sessions : create_initiative_insert(s)
          /\ \A s \in Sessions :
                create_initiative_insert(s) =>
                    LET new == Len(db.initiatives) + 1 IN
                    /\ Len(db'.initiatives) = new
                    /\ SubSeq(db'.initiatives, 1, Len(db.initiatives)) = db.initiatives
                    /\ db'.initiatives[new].status = "collecting"
                    /\ db'.initiatives[new].title = frame[s].title
                    /\ db'.initiatives[new].description = frame[s].description
                    /\ BagCardinality(db'.signatures) = BagCardinality(db.signatures) + 1
                    /\ get_signature_count(db', new) = 1
                    /\ has_signed(db', new, frame[s].voter_id)
                    /\ last_return' = Returned("create_initiative", TRUE, FALSE, new)]_vars

\* C18 witness: create_initiative has just returned id 2, and initiative 2
\* is collecting with one signature, the founder's.
C18_Witness ==
    /\ last_return = Returned("create_initiative", TRUE, FALSE, 2)
    /\ Len(db.initiatives) = 2
    /\ db.initiatives[2].status = "collecting"
    /\ get_signature_count(db, 2) = 1
    /\ BagCardinality(db.signatures) = 1

\* C19: no step removes or alters a stored vote or signature: every row of
\* the votes and signatures tables is still there, as many times and with
\* the same vote type, after the step, so get_signature_count of an
\* initiative and every count of get_vote_counts of a proposal never
\* decrease.
C19_AppendOnly ==
    [][/\ \A r \in BagToSet(db.votes) : CopiesIn(r, db'.votes) >= CopiesIn(r, db.votes)
       /\ \A r \in BagToSet(db.signatures) :
                CopiesIn(r, db'.signatures) >= CopiesIn(r, db.signatures)
       /\ \A p \in ProposalIds(db), v \in Voters :
                StoredVoteTypes(db, p, v) \subseteq StoredVoteTypes(db', p, v)
       /\ \A i \in InitiativeIds(db) :
                get_signature_count(db', i) >= get_signature_count(db, i)
       /\ \A p \in ProposalIds(db) :
                LET before == get_vote_counts(db, p)
                    after == get_vote_counts(db', p)
                IN  /\ DOMAIN before \subseteq DOMAIN after
                    /\ \A k \in DOMAIN before : after[k] >= before[k]]_vars

\* C19 witness: three votes are stored, one of them voter 1's agree on
\* proposal 1, and a later cast_vote was rejected.
C19_Witness ==
    /\ BagCardinality(db.votes) = 3
    /\ StoredVoteTypes(db, 1, 1) = {"agree"}
    /\ last_return = Returned("cast_vote", FALSE, FALSE, 0)

\* C20 (calls made one at a time): has_voted(P, V) is true exactly when the
\* votes table has a row of (P, V), and has_signed(I, V) exactly when the
\* signatures table has a row of (I, V).  has_voted(P, V) becomes true only
\* in a cast_vote(P, V, _) step that returns True and never becomes false
\* again; has_signed(I, V) becomes true only by the INSERT of a
\* sign_initiative(I, V) call, which then returns success, or by
\* create_initiative with V as founder of I.  cast_vote(P, V, _) returns
\* False exactly when has_voted(P, V) was true right before it.
C20_HasVotedIffStored ==
    /\ [](/\ \A p \in ProposalIds(db), v \in Voters :
                has_voted(db, p, v)
                    <=> \E r \in BagToSet(db.votes) : r.proposal_id = p /\ r.voter_id = v
          /\ \A i \in InitiativeIds(db), v \in Voters :
                has_signed(db, i, v)
                    <=> \E r \in BagToSet(db.signatures) :
                            r.initiative_id = i /\ r.voter_id = v)
    /\ [][/\ \A p \in ProposalIds(db), v \in Voters :
                /\ has_voted(db, p, v) => has_voted(db', p, v)
                /\ (has_voted(db', p, v) /\ ~has_voted(db, p, v)) =>
                        \E s \in Sessions, k \in VoteTypes :
                            /\ cast_vote(s, p, v, k)
                            /\ last_return' = Returned("cast_vote", TRUE, FALSE, 0)
                /\ \A s \in Sessions, k \in VoteTypes :
                        cast_vote(s, p, v, k) =>
                            /\ last_return' = Returned("cast_vote", FALSE, FALSE, 0)
                                    <=> has_voted(db, p, v)
                            /\ last_return' = Returned("cast_vote", TRUE, FALSE, 0)
                                    <=> ~has_voted(db, p, v)
                            /\ has_voted(db', p, v)
          /\ \A i \in InitiativeIds(db'), v \in Voters :
                (has_signed(db', i, v) /\ ~has_signed(db, i, v)) =>
                    \E s \in Sessions :
                        /\ frame[s].voter_id = v
                        /\ \/ sign_initiative_insert(s) /\ frame[s].initiative_id = i
                           \/ create_initiative_insert(s) /\ i = Len(db.initiatives) + 1
          /\ \A s \in Sessions :
                SignReturnsSuccess(s) =>
                    has_signed(db', frame[s].initiative_id, frame[s].voter_id)
          /\ \A i \in InitiativeIds(db), v \in Voters :
                has_signed(db, i, v) => has_signed(db', i, v)]_vars

\* C20 witness: voter 1 has voted on proposal 1 only, nobody else has voted
\* on it, and voter 1's second cast_vote on proposal 1 was rejected.
C20_Witness ==
    /\ has_voted(db, 1, 1)
    /\ ~has_voted(db, 2, 1)
    /\ ~has_voted(db, 1, 2)
    /\ BagCardinality(db.votes) = 1
    /\ last_return = Returned("cast_vote", FALSE, FALSE, 0)

\* C21: cast_vote accepts any vote type.  The first cast_vote(P, V, k) of a
\* pair, with k outside the two kinds expected for P's type, returns True
\* and stores k as given; V then has voted on P, so a further cast_vote of
\* V on P would be rejected; the tally of P gains the key k with one vote
\* more and keeps the counts of its two expected buckets.
C21_UnexpectedKindIsStored ==
    [][\A s \in Sessions, p \in ProposalIds(db), v \in Voters, k \in VoteTypes :
        (/\ cast_vote(s, p, v, k)
         /\ ~has_voted(db, p, v)
         /\ k \notin (IF db.proposals[p].type = "referendum"
                       THEN {"agree", "disagree"} ELSE {"veto", "approve"})) =>
            LET before == get_vote_counts(db, p)
                after == get_vote_counts(db', p)
                expected == IF db.proposals[p].type = "referendum"
                            THEN {"agree", "disagree"} ELSE {"veto", "approve"}
            IN  /\ last_return' = Returned("cast_vote", TRUE, FALSE, 0)
                /\ StoredVoteTypes(db', p, v) = {k}
                /\ has_voted(db', p, v)
                /\ \A j \in VoteTypes : ~votes_unique(db', p, v, j)
                /\ \A j \in expected : after[j] = before[j]
                /\ k \in DOMAIN after
                /\ after[k] = (IF k \in DOMAIN before THEN before[k] ELSE 0) + 1]_vars

\* C21 witness: voter 1 voted veto and voter 2 voted abstain on the
\* referendum proposal 1; its tally is {agree: 0, disagree: 0, veto: 1,
\* abstain: 1}, and voter 1's later cast_vote on it was rejected.
C21_Witness ==
    /\ StoredVoteTypes(db, 1, 1) = {"veto"}
    /\ StoredVoteTypes(db, 1, 2) = {"abstain"}
    /\ get_vote_counts(db, 1) = [agree |-> 0, disagree |-> 0, veto |-> 1, abstain |-> 1]
    /\ last_return = Returned("cast_vote", FALSE, FALSE, 0)

\* C23: under fair scheduling, every session that is inside a
\* create_initiative or sign_initiative call eventually leaves it, the
\* call having returned or raised; cast_vote is a single statement, and a
\* step that makes it also completes it with True or False.
C23_CallsComplete ==
    /\ \A s \in Sessions : (pc[s] \in SignPositions \cup {"ci_insert"}) ~> (pc[s] = "idle")
    /\ [][\A s \in Sessions, p \in ProposalIds(db), v \in Voters, k \in VoteTypes :
            cast_vote(s, p, v, k) =>
                /\ pc'[s] = "idle"
                /\ last_return'.op = "cast_vote"
                /\ last_return'.error = ""]_vars

\* C23 witness: both sessions were inside sign_initiative at once, on the
\* same initiative and voter, and both calls have completed, the last one
\* as a duplicate.
C23_Witness ==
    /\ Running = {}
    /\ Len(db.initiatives) = 2
    /\ BagCardinality(db.signatures) = 2
    /\ get_signature_count(db, 1) = SeedSignatures + 1
    /\ last_return = Returned("sign_initiative", FALSE, FALSE, 0)

\* C24: every qualified initiative has at least as many signatures as it
\* requires.  The UPDATE of the status is made only by a call whose own
\* signature is stored and whose count, read after that, is at least the
\* stored required count and at most the count at the time of the UPDATE.
C24_QualifiedHasEnoughSignatures ==
    /\ [](\A i \in InitiativeIds(db) :
            db.initiatives[i].status = "qualified" =>
                get_signature_count(db, i) >= db.initiatives[i].required_signatures)
    /\ [][\A s \in Sessions :
            sign_initiative_update(s) =>
                LET i == frame[s].initiative_id IN
                /\ has_signed(db, i, frame[s].voter_id)
                /\ frame[s].signatures >= db.initiatives[i].required_signatures
                /\ get_signature_count(db, i) >= frame[s].signatures
                /\ frame[s].signatures > frame[s].issued_signatures]_vars

\* C24 witness: initiative 2 requires 2 signatures, is qualified and has 3.
C24_Witness ==
    /\ Len(db.initiatives) = 2
    /\ db.initiatives[2].status = "qualified"
    /\ db.initiatives[2].required_signatures = 2
    /\ get_signature_count(db, 2) = 3

\* C25: in every committed state, between the commits of a running or
\* aborted sign_initiative call too, every proposal after the seeded ones is
\* the proposal of an initiative whose status is qualified, and every call
\* that spawned a proposal did so for an initiative that is qualified.
C25_ProposalOnlyAfterQualified ==
    /\ \A p \in ProposalIds(db) \ (1..Len(SeedProposals)) :
            \E i \in InitiativeIds(db) :
                /\ db.initiatives[i].status = "qualified"
                /\ db.proposals[p].title = db.initiatives[i].title
                /\ QualifiedReturns(qualified_by, i) # {}
    /\ \A n \in 1..Len(qualified_by) :
            /\ db.initiatives[qualified_by[n].initiative_id].status = "qualified"
            /\ qualified_by[n].proposal_id \in ProposalIds(db)

\* C25 witness: initiative 2 is qualified and has no proposal yet, the call
\* that updated its status having been aborted before its INSERT.
C25_Witness ==
    /\ Len(db.initiatives) = 2
    /\ db.initiatives[2].status = "qualified"
    /\ Len(db.proposals) = Len(SeedProposals)
    /\ Running = {}
    /\ last_return = Failed("sign_initiative", "StorageFailure")

\* The sum of the values of the mapping counts over the keys in keys.
RECURSIVE SumOver(_, _)
SumOver(counts, keys) ==
    IF keys = {} THEN 0
    ELSE LET k == CHOOSE x \in keys : TRUE
         IN  counts[k] + SumOver(counts, keys \ {k})

\* The votes that get_vote_counts reports for a proposal, all keys together.
TotalVotes(d, proposal_id) ==
    SumOver(get_vote_counts(d, proposal_id), DOMAIN get_vote_counts(d, proposal_id))

\* C26: for every proposal, the counts of get_vote_counts add up to the
\* number of voters who have a vote on it; the sum goes up by one in every
\* cast_vote step on the proposal that returns True, which is a voter's
\* first, and changes in no other step.
C26_TallySumIsVoterCount ==
    /\ [](\A p \in ProposalIds(db) :
            TotalVotes(db, p) = Cardinality({v \in Voters : StoredVoteTypes(db, p, v) # {}}))
    /\ [][\A p \in ProposalIds(db) :
            LET before == TotalVotes(db, p)
                after == TotalVotes(db', p)
                first_vote_cast ==
                    /\ last_return' = Returned("cast_vote", TRUE, FALSE, 0)
                    /\ \E s \in Sessions, v \in Voters, k \in VoteTypes :
                            cast_vote(s, p, v, k) /\ StoredVoteTypes(db, p, v) = {}
            IN  IF first_vote_cast THEN after = before + 1 ELSE after = before]_vars

\* C26 witness: proposal 1 has an agree vote, a veto vote and an abstain
\* vote of three voters, and its counts add up to 3.
C26_Witness ==
    /\ get_vote_counts(db, 1) = [agree |-> 1, disagree |-> 0, veto |-> 1, abstain |-> 1]
    /\ TotalVotes(db, 1) = 3
    /\ last_return = Returned("cast_vote", TRUE, FALSE, 0)

\* C27: a cast_vote(P, V, k) step leaves the votes of every other
\* proposal and the proposals, initiatives, signatures and settings as they
\* were, and V's first vote on any proposal succeeds whatever V has voted
\* elsewhere.  A step of a sign_initiative(I, V) call leaves all votes, the
\* settings, every other initiative and the signatures of every other
\* initiative as they were, never changes I's required count, and changes
\* the proposals table only in the step that returns (True, True), by
\* appending one proposal.
C27_OperationsTouchOwnSubject ==
    [][\A s \in Sessions :
        /\ \A p \in ProposalIds(db), v \in Voters, k \in VoteTypes :
                cast_vote(s, p, v, k) =>
                    /\ \A q \in ProposalIds(db) \ {p}, w \in Voters :
                            StoredVoteTypes(db', q, w) = StoredVoteTypes(db, q, w)
                    /\ db'.proposals = db.proposals
                    /\ db'.initiatives = db.initiatives
                    /\ db'.signatures = db.signatures
                    /\ db'.settings = db.settings
                    /\ ~has_voted(db, p, v) => last_return'.success
        /\ (pc[s] \in SignPositions /\ Continue(s)) =>
                LET i == frame[s].initiative_id IN
                /\ db'.votes = db.votes
                /\ db'.settings = db.settings
                /\ Len(db'.initiatives) = Len(db.initiatives)
                /\ \A j \in InitiativeIds(db) \ {i} :
                        /\ db'.initiatives[j] = db.initiatives[j]
                        /\ \A w \in Voters : has_signed(db', j, w) = has_signed(db, j, w)
                        /\ get_signature_count(db', j) = get_signature_count(db, j)
                /\ db'.initiatives[i].required_signatures
                        = db.initiatives[i].required_signatures
                /\ \/ db'.proposals = db.proposals
                   \/ /\ sign_initiative_spawn(s)
                      /\ last_return' = Returned("sign_initiative", TRUE, TRUE, 0)
                      /\ Len(db'.proposals) = Len(db.proposals) + 1
                      /\ SubSeq(db'.proposals, 1, Len(db.proposals)) = db.proposals]_vars

\* C27 witness: voter 1 has voted on proposal 1 and then on proposal 2.
C27_Witness ==
    /\ StoredVoteTypes(db, 1, 1) = {"agree"}
    /\ StoredVoteTypes(db, 2, 1) = {"veto"}
    /\ BagCardinality(db.votes) = 2
    /\ last_return = Returned("cast_vote", TRUE, FALSE, 0)

\* Some users row has this id.
has_user(d, google_id) == \E row \in d.users : row.id = google_id

\* C22 as stated: the voter identity a principal acts under after a login is
\* the hash of (principal, date of that login).
C22_LoginYieldsHashOfCurrentDate ==
    [][\A s \in Sessions, g \in Principals :
            login(s, g) => user'[s].voter_id = generate_voter_id(g, today)]_vars

\* C22, amended: the voter identity a principal acts under is the voter_id
\* stored in the users table at the principal's first login, the hash of
\* (principal, date of that first login).  A later login, on the same or a
\* later date, yields the stored voter_id and not the hash of the current
\* date; no step changes a stored row; votes and signatures made through
\* the tabs carry the stored voter_id.
C22_LoginYieldsStoredVoterId ==
    /\ [][\A s \in Sessions, g \in Principals :
            login(s, g) =>
                /\ user'[s].id = g
                /\ user'[s].voter_id =
                        IF has_user(db, g)
                        THEN get_user_by_id(db, g).voter_id
                        ELSE generate_voter_id(g, today)
                /\ get_user_by_id(db', g).voter_id = user'[s].voter_id]_vars
    /\ [][\A row \in db.users : row \in db'.users]_vars
    /\ [][\A s \in Sessions, v \in VoterIds :
            /\ (\E p \in ProposalIds(db) : vote_buttons(s, p, v)) =>
                    v = get_user_by_id(db, user[s].id).voter_id
            /\ (\E i \in InitiativeIds(db) : sign_button(s, i, v)) =>
                    v = get_user_by_id(db, user[s].id).voter_id]_vars
    /\ [][\A s \in Sessions :
            (pc[s] \in {"vote_buttons", "sign_button"} /\ pc'[s] # "idle") =>
                frame'[s].voter_id = get_user_by_id(db, user[s].id).voter_id]_vars

\* C22 witness: a session that logged in on date 2 acts under the voter id
\* generated on date 1, and the ledger holds a vote under that id.
C22_Witness ==
    \E s \in Sessions :
        /\ user[s] # NoUser
        /\ user[s].logged_in_on = 2
        /\ user[s].voter_id = generate_voter_id(user[s].id, 1)
        /\ \E p \in ProposalIds(db) : has_voted(db, p, user[s].voter_id)

\* The rows of proposal_id (initiative_id) whose voter_id is one that
\* generate_voter_id produces for the principal.
VotesOfPrincipal(d, proposal_id, google_id) ==
    RowCount(d.votes, {r \in BagToSet(d.votes) :
                        r.proposal_id = proposal_id /\ r.voter_id \in VoterIdsOf(google_id)})

SignaturesOfPrincipal(d, initiative_id, google_id) ==
    RowCount(d.signatures, {r \in BagToSet(d.signatures) :
                             r.initiative_id = initiative_id
                             /\ r.voter_id \in VoterIdsOf(google_id)})

\* C28: across logins, logouts and changes of date, no proposal holds two
\* votes and no initiative holds two signatures of the same principal; a
\* session acts under one of its principal's voter ids, the stored one.
C28_OneVotePerPrincipal ==
    /\ [](\A g \in Principals :
            /\ \A p \in ProposalIds(db) : VotesOfPrincipal(db, p, g) <= 1
            /\ \A i \in InitiativeIds(db) : SignaturesOfPrincipal(db, i, g) <= 1)
    /\ [](\A s \in Sessions :
            /\ user[s] # NoUser =>
                    /\ has_user(db, user[s].id)
                    /\ user[s].voter_id = get_user_by_id(db, user[s].id).voter_id
                    /\ user[s].voter_id \in VoterIdsOf(user[s].id)
            /\ pc[s] \in {"vote_buttons", "sign_button", "si_insert"} =>
                    /\ user[s] # NoUser
                    /\ frame[s].voter_id = user[s].voter_id)

\* C28 witness: two sessions of principal 1, one logged in on date 1 and one
\* on date 2, both clicked a vote button of proposal 1; the second click
\* was refused and the proposal holds one vote of the principal.
C28_Witness ==
    /\ scope = "vote_login"
    /\ \E s, t \in Sessions :
            /\ user[s] # NoUser /\ user[t] # NoUser
            /\ user[s].id = 1 /\ user[t].id = 1
            /\ user[s].logged_in_on = 1 /\ user[t].logged_in_on = 2
    /\ VotesOfPrincipal(db, 1, 1) = 1
    /\ last_return = Returned("cast_vote", FALSE, FALSE, 0)
====
